---------------------------- MODULE Spec2Model ----------------------------
(***************************************************************************)
(* YiTranslate: the document translation pipeline of DocxService.py (the   *)
(* "root" variant, src/DocxService.py) and of server/DocxService.py (the   *)
(* "server" variant): extract_content, batch_translate, fill_template.     *)
(*                                                                         *)
(* A text is a sequence of characters (one-character strings).  A          *)
(* paragraph is its sequence of runs, each a text and a font, as the       *)
(* document library presents it; paragraph.text is the runs' texts joined. *)
(***************************************************************************)
EXTENDS Integers, Sequences, FiniteSets, TLC

VARIABLES
    variant,     \* which service is deployed: "root" or "server"
    now,         \* int(time.time()): the wall clock, in seconds
    pc,          \* pc[r]: where request r's process_document stands
    upload,      \* upload[r]: the UploadFile of request r (filename, document)
    entity,      \* entity[r]: the DocumentEntity extract_content returned
    task,        \* task[r][i]: the state of the task translating item i
    semaphore,   \* semaphore[r]: the value of batch_translate's Semaphore
    calls,       \* calls[r][i]: calls of translate_text made for item i
    finished,    \* finished[r]: the items in the order their calls ended
    templates,   \* TEMPLATE_DIR: template file name -> [doc, writer]
    products,    \* PRODUCT_DIR: product file name -> [doc, writer]
    opened,      \* opened[r]: the template file fill_template of r opened
    response,    \* response[r]: what process_document returned or raised
    u_variant,   \* unit runs: the variant whose function is applied
    u_stage,     \* unit runs: "input", "template" or "final"
    u_input,     \* unit runs: the paragraph (or cell) as given
    u_para,      \* unit runs: the paragraph (or cell) as it stands now
    u_num,       \* unit runs: current_num given to process_paragraph
    u_next,      \* unit runs: current_num returned by process_paragraph
    u_items,     \* unit runs: the items list
    u_pieces,    \* unit runs: the pieces a template paragraph is made of
    u_cell       \* unit runs: a table cell that holds the paragraph

pvars == <<variant, now, pc, upload, entity, task, semaphore, calls,
           finished, templates, products, opened, response>>
uvars == <<u_variant, u_stage, u_input, u_para, u_num, u_next, u_items,
           u_pieces, u_cell>>
vars == <<pvars, uvars>>

(***************************************************************************)
(* Bounds of the model.                                                    *)
(***************************************************************************)
\* longest paragraph text of the exhaustive paragraph runs
MaxLen == 5
\* pieces of a template paragraph given to the reassembly
MaxPieces == 3
\* paragraphs of all the documents uploaded together
MaxParas == 3
\* seconds the clock advances
MaxTime == 1
\* CONCURRENCY_LIMIT, 20 in the root variant and 100 in the server variant,
\* scaled down so that the items of a document can exceed it
CONCURRENCY_LIMIT == 2

(***************************************************************************)
(* Characters and Python's str / int / re primitives.                      *)
(***************************************************************************)
NL == "\n"
TAB == "\t"

\* Python's None where a text is expected: a sequence that is no text (its
\* element is not a character).
None == <<"None">>

Digits == <<"0", "1", "2", "3", "4", "5", "6", "7", "8", "9">>

\* the regular expression class \d
IsDigit(c) == \E i \in 1..10 : Digits[i] = c

DigitVal(c) == (CHOOSE i \in 1..10 : Digits[i] = c) - 1

\* the regular expression class \s, the characters str.strip() removes
IsSpace(c) == c \in {" ", NL, TAB}

\* str(n) of a non-negative int, as the f-string formats current_num
RECURSIVE IntToStr(_)
IntToStr(n) ==
    IF n < 10 THEN <<Digits[n + 1]>>
    ELSE IntToStr(n \div 10) \o <<Digits[(n % 10) + 1]>>

\* int(s) of a string of decimal digits (leading zeros allowed)
RECURSIVE StrToInt(_)
StrToInt(s) ==
    IF s = <<>> THEN 0
    ELSE StrToInt(SubSeq(s, 1, Len(s) - 1)) * 10 + DigitVal(s[Len(s)])

\* first index >= i of s holding no digit (the greedy \d* from i)
RECURSIVE SkipDigits(_, _)
SkipDigits(s, i) ==
    IF i <= Len(s) /\ IsDigit(s[i]) THEN SkipDigits(s, i + 1) ELSE i

\* first index >= i of s holding no whitespace (the greedy \s* from i)
RECURSIVE SkipSpaces(_, _)
SkipSpaces(s, i) ==
    IF i <= Len(s) /\ IsSpace(s[i]) THEN SkipSpaces(s, i + 1) ELSE i

\* the greedy (?:\.\d+)* from i
RECURSIVE SkipGroups(_, _)
SkipGroups(s, i) ==
    IF i <= Len(s) /\ s[i] = "." /\ SkipDigits(s, i + 1) > i + 1
    THEN SkipGroups(s, SkipDigits(s, i + 1))
    ELSE i

\* first index >= i of s holding a newline (the greedy .* from i: "." matches
\* every character but the newline)
RECURSIVE SkipDots(_, _)
SkipDots(s, i) ==
    IF i <= Len(s) /\ s[i] # NL THEN SkipDots(s, i + 1) ELSE i

\* last index <= i of s holding no whitespace
RECURSIVE BackSpaces(_, _)
BackSpaces(s, i) ==
    IF i >= 1 /\ IsSpace(s[i]) THEN BackSpaces(s, i - 1) ELSE i

\* str.strip()
strip(s) == SubSeq(s, SkipSpaces(s, 1), BackSpaces(s, Len(s)))

\* old occurs in s at index i
IsAt(s, i, old) ==
    /\ i + Len(old) - 1 <= Len(s)
    /\ SubSeq(s, i, i + Len(old) - 1) = old

\* old in s
Contains(s, old) == \E i \in 1..Len(s) : IsAt(s, i, old)

\* s[i:].replace(old, new), old not empty: leftmost occurrences, left to
\* right, the inserted text never scanned
RECURSIVE ReplaceFrom(_, _, _, _)
ReplaceFrom(s, i, old, new) ==
    IF i > Len(s) THEN <<>>
    ELSE IF IsAt(s, i, old)
         THEN new \o ReplaceFrom(s, i + Len(old), old, new)
         ELSE <<s[i]>> \o ReplaceFrom(s, i + 1, old, new)

\* str.replace(old, new)
replace(s, old, new) == ReplaceFrom(s, 1, old, new)

\* re.compile(r"^(\d+(?:\.\d+)*\s+)(.*)$").match(text): group 1 is the
\* digits, their dotted groups and all the whitespace after them; group 2
\* runs to the end of the text, or to a newline that ends the text ("$"),
\* and the match fails when a newline comes earlier
pattern_match(text) ==
    LET d == SkipDigits(text, 1)
        g == SkipGroups(text, d)
        w == SkipSpaces(text, g)
        e == SkipDots(text, w)
    IN  IF d > 1 /\ w > g /\ e >= Len(text)
        THEN [matched |-> TRUE,
              group1 |-> SubSeq(text, 1, w - 1),
              group2 |-> SubSeq(text, w, e - 1)]
        ELSE [matched |-> FALSE, group1 |-> <<>>, group2 |-> <<>>]

\* f"{{{{ {n} }}}}": the placeholder of number n
placeholder(n) == <<"{", "{", " ">> \o IntToStr(n) \o <<" ", "}", "}">>

\* re.compile(r"\{\{\s*(\d+)\s*\}\}") tried at index i of s
fill_pattern_at(s, i) ==
    LET a == SkipSpaces(s, i + 2)
        b == SkipDigits(s, a)
        c == SkipSpaces(s, b)
    IN  IF /\ i + 1 <= Len(s) /\ s[i] = "{" /\ s[i + 1] = "{"
           /\ b > a
           /\ c + 1 <= Len(s) /\ s[c] = "}" /\ s[c + 1] = "}"
        THEN [matched |-> TRUE, group1 |-> SubSeq(s, a, b - 1),
              group0 |-> SubSeq(s, i, c + 1), end |-> c + 2]
        ELSE [matched |-> FALSE, group1 |-> <<>>, group0 |-> <<>>, end |-> i]


(***************************************************************************)
(* The document library's objects: fonts, runs, paragraphs.                *)
(***************************************************************************)
\* docx.shared.Pt(x): a length of x points.  Lengths are kept in points
\* here; the library holds them in EMU, EmuPerPt to the point, and that is
\* the int a length hands to Pt() when the code passes one.
EmuPerPt == 12700

\* a run's font as the library reads it: "None" for an attribute not set,
\* size 0 for no size
DefaultFont ==
    [name |-> "None", eastAsia |-> "None", size |-> 0, bold |-> "None",
     italic |-> "None", color |-> "None"]

Run(text, font) == [text |-> text, font |-> font]

\* paragraph.add_run(text): a new run of the document's default formatting
add_run(text) == Run(text, DefaultFont)

RECURSIVE JoinRuns(_)
JoinRuns(runs) ==
    IF runs = <<>> THEN <<>> ELSE Head(runs).text \o JoinRuns(Tail(runs))

\* paragraph.text
ParaText(paragraph) == JoinRuns(paragraph.runs)

DocumentItem(placeholder_number, original_content) ==
    [placeholder_number |-> placeholder_number,
     original_content |-> original_content,
     translate_content |-> None]

(***************************************************************************)
(* process_paragraph, root variant.                                        *)
(***************************************************************************)
\* the style dict read from the first run; NoStyle stands for style = None
NoStyle == [captured |-> FALSE, name |-> "None", size |-> 0, bold |-> "None",
            italic |-> "None", color |-> "None"]

capture_style(paragraph) ==
    IF paragraph.runs # <<>>
    THEN LET font == paragraph.runs[1].font
         IN  [captured |-> TRUE, name |-> font.name, size |-> font.size,
              bold |-> font.bold, italic |-> font.italic,
              color |-> font.color]
    ELSE NoStyle

\* the new run with the style applied: the size goes through Pt() again,
\* the color is set only when there is one
styled_run(new_text, style) ==
    IF style.captured
    THEN Run(new_text,
             [name |-> style.name,
              eastAsia |-> "None",
              size |-> IF style.size # 0 THEN style.size * EmuPerPt ELSE 0,
              bold |-> style.bold,
              italic |-> style.italic,
              color |-> style.color])
    ELSE add_run(new_text)

process_paragraph(paragraph, current_num, items) ==
    LET original_text == strip(ParaText(paragraph))
        match == pattern_match(original_text)
        content == IF match.matched THEN match.group2 ELSE original_text
        new_text == IF match.matched
                    THEN match.group1 \o placeholder(current_num)
                    ELSE placeholder(current_num)
        style == capture_style(paragraph)
    IN  IF original_text = <<>>
        THEN [paragraph |-> paragraph, current_num |-> current_num,
              items |-> items]
        ELSE [paragraph |-> [runs |-> <<styled_run(new_text, style)>>],
              current_num |-> current_num + 1,
              items |-> Append(items, DocumentItem(current_num, content))]

(***************************************************************************)
(* process_paragraph, server variant.                                      *)
(***************************************************************************)
\* font.name or "SimSun", font.size or Pt(12)
server_capture_style(paragraph) ==
    IF paragraph.runs # <<>>
    THEN LET font == paragraph.runs[1].font
         IN  [captured |-> TRUE,
              name |-> IF font.name = "None" THEN "SimSun" ELSE font.name,
              size |-> IF font.size = 0 THEN 12 ELSE font.size,
              bold |-> font.bold, italic |-> font.italic,
              color |-> font.color]
    ELSE NoStyle

\* the new run: the name is set for western and east-asian text alike, the
\* size is written as captured
server_styled_run(new_text, style) ==
    IF style.captured
    THEN Run(new_text,
             [name |-> style.name,
              eastAsia |-> style.name,
              size |-> style.size,
              bold |-> style.bold,
              italic |-> style.italic,
              color |-> style.color])
    ELSE add_run(new_text)

server_process_paragraph(paragraph, current_num, items) ==
    LET original_text == strip(ParaText(paragraph))
        match == pattern_match(original_text)
        content == IF match.matched THEN match.group2 ELSE original_text
        new_text == IF match.matched
                    THEN match.group1 \o placeholder(current_num)
                    ELSE placeholder(current_num)
        style == server_capture_style(paragraph)
    IN  IF original_text = <<>>
        THEN [paragraph |-> paragraph, current_num |-> current_num,
              items |-> items]
        ELSE [paragraph |->
                  [runs |-> <<server_styled_run(new_text, style)>>],
              current_num |-> current_num + 1,
              items |-> Append(items, DocumentItem(current_num, content))]

(***************************************************************************)
(* Reassembly of one paragraph.                                            *)
(***************************************************************************)
\* mutant: the map keyed one off, each number given the next item's text
content_map_shifted(items) ==
    [n \in {items[i].placeholder_number : i \in 1..Len(items)} |->
        items[(n % Len(items)) + 1].translate_content]

\* {item.placeholder_number: item.translate_content for item in items}: a
\* later item of the same number replaces an earlier one
content_map(items) ==
    [n \in {items[i].placeholder_number : i \in 1..Len(items)} |->
        LET last == CHOOSE i \in 1..Len(items) :
                        /\ items[i].placeholder_number = n
                        /\ \A j \in (i + 1)..Len(items) :
                               items[j].placeholder_number # n
        IN  items[last].translate_content]

\* mutant: a number with no item is replaced by nothing
replacement_drops_unknown(m, cmap) ==
    IF StrToInt(m.group1) \in DOMAIN cmap
          /\ cmap[StrToInt(m.group1)] # None
    THEN cmap[StrToInt(m.group1)]
    ELSE <<>>

\* lambda m: content_map.get(int(m.group(1)), m.group(0)); re.sub takes a
\* None the function returns as the empty string
replacement(m, cmap) ==
    LET key == StrToInt(m.group1)
    IN  IF key \in DOMAIN cmap
        THEN (IF cmap[key] = None THEN <<>> ELSE cmap[key])
        ELSE m.group0

\* pattern.sub(lambda, text) from index i: the leftmost matches, left to
\* right, the inserted text never scanned
RECURSIVE pattern_sub(_, _, _)
pattern_sub(text, i, cmap) ==
    IF i > Len(text) THEN <<>>
    ELSE LET m == fill_pattern_at(text, i)
         IN  IF m.matched
             THEN replacement(m, cmap) \o pattern_sub(text, m.end, cmap)
             ELSE <<text[i]>> \o pattern_sub(text, i + 1, cmap)

\* root variant
process_fill_paragraph(paragraph, cmap) ==
    LET original_text == strip(ParaText(paragraph))
        new_text == pattern_sub(original_text, 1, cmap)
        style == capture_style(paragraph)
    IN  IF original_text = <<>> THEN paragraph
        ELSE [runs |-> <<styled_run(new_text, style)>>]

\* mutant: the translated content is put in as it is, absent or not
content_as_is(item) == item.translate_content

\* item.translate_content or ""
content_or_empty(item) ==
    IF item.translate_content = None THEN <<>> ELSE item.translate_content

\* server variant, the loop over doc_entity.items for one body paragraph,
\* from item i on: paragraph.text = ... puts the text in one new run
RECURSIVE server_fill_paragraph(_, _, _)
server_fill_paragraph(paragraph, items, i) ==
    IF i > Len(items) THEN paragraph
    ELSE LET ph == placeholder(items[i].placeholder_number)
             text == ParaText(paragraph)
         IN  server_fill_paragraph(
                 IF Contains(text, ph)
                 THEN [runs |->
                          <<add_run(replace(text, ph,
                                            content_or_empty(items[i])))>>]
                 ELSE paragraph,
                 items, i + 1)


(***************************************************************************)
(* Documents: doc.paragraphs, and doc.tables -> rows -> cells ->           *)
(* paragraphs.  A document that the library cannot parse has valid FALSE.  *)
(***************************************************************************)
Doc(body, tables) == [valid |-> TRUE, body |-> body, tables |-> tables]

\* what a walk returns: the paragraphs (cells, rows, tables) as rewritten,
\* the next number and the items
Walked(out, current_num, items) ==
    [out |-> out, current_num |-> current_num, items |-> items]

\* the walk of the first element done (its rewritten form x), then the rest
Then(x, rest) == Walked(<<x>> \o rest.out, rest.current_num, rest.items)

\* current_num = process_paragraph(paragraph, current_num, items)
step_paragraph(v, paragraph, current_num, items) ==
    IF v = "root"
    THEN process_paragraph(paragraph, current_num, items)
    ELSE server_process_paragraph(paragraph, current_num, items)

\* for paragraph in paragraphs: the number and the items threaded through
RECURSIVE extract_paragraphs(_, _, _, _)
RECURSIVE after_paragraph(_, _, _)
extract_paragraphs(v, paragraphs, current_num, items) ==
    IF paragraphs = <<>> THEN Walked(<<>>, current_num, items)
    ELSE after_paragraph(v, Tail(paragraphs),
             step_paragraph(v, Head(paragraphs), current_num, items))

after_paragraph(v, rest, p) ==
    Then(p.paragraph, extract_paragraphs(v, rest, p.current_num, p.items))

\* for cell in row.cells: for paragraph in cell.paragraphs
RECURSIVE extract_cells(_, _, _, _)
RECURSIVE after_cell(_, _, _)
extract_cells(v, cells, current_num, items) ==
    IF cells = <<>> THEN Walked(<<>>, current_num, items)
    ELSE after_cell(v, Tail(cells),
             extract_paragraphs(v, Head(cells), current_num, items))

after_cell(v, rest, c) ==
    Then(c.out, extract_cells(v, rest, c.current_num, c.items))

\* for row in table.rows
RECURSIVE extract_rows(_, _, _, _)
RECURSIVE after_row(_, _, _)
extract_rows(v, rows, current_num, items) ==
    IF rows = <<>> THEN Walked(<<>>, current_num, items)
    ELSE after_row(v, Tail(rows),
             extract_cells(v, Head(rows), current_num, items))

after_row(v, rest, r) ==
    Then(r.out, extract_rows(v, rest, r.current_num, r.items))

\* for table in doc.tables
RECURSIVE extract_tables(_, _, _, _)
RECURSIVE after_table(_, _, _)
extract_tables(v, tables, current_num, items) ==
    IF tables = <<>> THEN Walked(<<>>, current_num, items)
    ELSE after_table(v, Tail(tables),
             extract_rows(v, Head(tables), current_num, items))

after_table(v, rest, t) ==
    Then(t.out, extract_tables(v, rest, t.current_num, t.items))

\* the number extract_content starts from
FirstNum == 1

\* mutant: the walk of the tables starts its own numbering
tables_start_restart(body_walk) == FirstNum

\* the number the walk of the tables starts from: the one the walk of the
\* body paragraphs ended with
tables_start(body_walk) == body_walk.current_num

\* file names are sequences of name parts, the extension the last part
DocxExt == ".docx"

\* original_filename.replace(".docx", "")
base_name(original_filename) == replace(original_filename, <<DocxExt>>, <<>>)

\* os.path.splitext(original_filename)[0]
server_base_name(original_filename) ==
    IF Len(original_filename) > 1
       /\ original_filename[Len(original_filename)] = DocxExt
    THEN SubSeq(original_filename, 1, Len(original_filename) - 1)
    ELSE original_filename

\* f"{base_name}_template_{int(time.time())}.docx"
template_name(v, original_filename, time) ==
    [base |-> IF v = "root" THEN base_name(original_filename)
              ELSE server_base_name(original_filename),
     time |-> time]

\* file.filename or "uploaded.docx"
filename_or_default(filename) ==
    IF filename = <<>> THEN <<"uploaded", DocxExt>> ELSE filename

\* DocumentEntity(doc_id, original_filename, template_filename, items); the
\* uuid doc_id plays no part
DocumentEntity(original_filename, template_filename, items) ==
    [original_filename |-> original_filename,
     template_filename |-> template_filename,
     items |-> items]

\* the walk of the tables after the walk of the body, and the template the
\* two leave
extract_walk(v, doc, body) ==
    [body |-> body.out,
     tabs |-> extract_tables(v, doc.tables, tables_start(body), body.items)]

extract_result(v, original_filename, time, w) ==
    [ok |-> TRUE,
     entity |-> DocumentEntity(original_filename,
                               template_name(v, original_filename, time),
                               w.tabs.items),
     template |-> Doc(w.body, w.tabs.out)]

\* mutant: the document is walked and saved whether it could be read or not
extract_content_unchecked(v, file, time) ==
    extract_result(v, filename_or_default(file.filename), time,
        extract_walk(v, file.doc,
            extract_paragraphs(v, file.doc.body, FirstNum, <<>>)))

\* extract_content(file) at time `time`: the DocumentEntity and the template
\* document it saves, or ok FALSE when Document(...) raises (caught, and
\* raised again as the HTTPException 500)
extract_content(v, file, time) ==
    IF ~file.doc.valid
    THEN [ok |-> FALSE,
          entity |-> DocumentEntity(<<>>, [base |-> <<>>, time |-> 0], <<>>),
          template |-> Doc(<<>>, <<>>)]
    ELSE extract_result(v, filename_or_default(file.filename), time,
             extract_walk(v, file.doc,
                 extract_paragraphs(v, file.doc.body, FirstNum, <<>>)))

(***************************************************************************)
(* fill_template.                                                          *)
(***************************************************************************)
\* root variant: process_fill_paragraph on every paragraph of the walk
fill_paragraphs(paragraphs, cmap) ==
    [i \in 1..Len(paragraphs) |-> process_fill_paragraph(paragraphs[i], cmap)]

fill_tables(tables, cmap) ==
    [t \in 1..Len(tables) |->
        [r \in 1..Len(tables[t]) |->
            [c \in 1..Len(tables[t][r]) |->
                fill_paragraphs(tables[t][r][c], cmap)]]]

\* "\n".join(p.text for p in cell.paragraphs): cell.text
RECURSIVE JoinParagraphs(_)
JoinParagraphs(paragraphs) ==
    IF paragraphs = <<>> THEN <<>>
    ELSE IF Len(paragraphs) = 1 THEN ParaText(paragraphs[1])
    ELSE ParaText(Head(paragraphs)) \o <<NL>>
             \o JoinParagraphs(Tail(paragraphs))

\* server variant, the loop over doc_entity.items for one cell, from item i
\* on: cell.text = ... leaves the cell one paragraph of one run
RECURSIVE server_fill_cell(_, _, _)
server_fill_cell(cell, items, i) ==
    IF i > Len(items) THEN cell
    ELSE LET ph == placeholder(items[i].placeholder_number)
             text == JoinParagraphs(cell)
         IN  server_fill_cell(
                 IF Contains(text, ph)
                 THEN <<[runs |->
                          <<add_run(replace(text, ph,
                                            content_or_empty(items[i])))>>]>>
                 ELSE cell,
                 items, i + 1)

server_fill_paragraphs(paragraphs, items) ==
    [i \in 1..Len(paragraphs) |->
        server_fill_paragraph(paragraphs[i], items, 1)]

server_fill_tables(tables, items) ==
    [t \in 1..Len(tables) |->
        [r \in 1..Len(tables[t]) |->
            [c \in 1..Len(tables[t][r]) |->
                server_fill_cell(tables[t][r][c], items, 1)]]]

\* f"translated_{doc_entity.original_filename}"
translated_name(original_filename) == <<"translated_">> \o original_filename

\* mutant: the first item is left out of the reassembly
fill_items_tail(doc_entity) ==
    IF doc_entity.items = <<>> THEN <<>> ELSE Tail(doc_entity.items)

\* the join key of reassembly: the items as fill_template reads them
fill_items(doc_entity) == doc_entity.items

\* the walk of fill_template over the template document
fill_doc(v, template, items) ==
    IF v = "root"
    THEN Doc(fill_paragraphs(template.body, content_map(items)),
             fill_tables(template.tables, content_map(items)))
    ELSE Doc(server_fill_paragraphs(template.body, items),
             server_fill_tables(template.tables, items))

\* the name in Content-Disposition
download_name(v, original_filename) ==
    IF v = "root" THEN original_filename
    ELSE translated_name(original_filename)

\* fill_template(doc_entity) over the template directory `files`: the
\* response.  A missing template is the root variant's HTTPException 404,
\* which its own "except Exception" turns into the 500 of a failed fill; in
\* the server variant Document(template_path) raises and nothing catches it.
fill_template(v, doc_entity, files) ==
    IF doc_entity.template_filename \notin DOMAIN files
    THEN [ok |-> FALSE, status |-> 500,
          detail |-> IF v = "root" THEN "fill_error" ELSE "unhandled",
          doc |-> Doc(<<>>, <<>>), filename |-> <<>>]
    ELSE [ok |-> TRUE, status |-> 200, detail |-> "",
          doc |-> fill_doc(v, files[doc_entity.template_filename].doc,
                           fill_items(doc_entity)),
          filename |-> download_name(v, doc_entity.original_filename)]

(***************************************************************************)
(* The translation capability, translate_text of YiTranslateSolely: it     *)
(* returns some text for the content it is given, or raises.               *)
(***************************************************************************)
Translated(content) == <<"T">> \o content

\* the texts a call on `content` may return: a translation of it, or a text
\* that itself reads "{{ 2 }}"
TranslationResults(content) == {Translated(content), placeholder(2)}

\* str(e) of the exceptions a call may raise
ErrorMessages == {<<"e">>}

\* f"[FAILED] {str(e)}"
failed_marker(msg) == <<"[", "F", "A", "I", "L", "E", "D", "]", " ">> \o msg

(***************************************************************************)
(* The uploads of the pipeline runs.                                       *)
(***************************************************************************)
Variants == {"root", "server"}
Requests == {1, 2}

StyledFont ==
    [name |-> "Arial", eastAsia |-> "None", size |-> 12, bold |-> "True",
     italic |-> "None", color |-> "FF0000"]

Letters == <<"a", "b", "c", "d", "e", "f", "g", "h">>

\* the paragraphs of the uploaded documents: the i-th paragraph of a
\* document is blank, or holds the i-th letter: alone in one styled run at
\* an odd place, after the numbering "2.1 " and in a run of its own at an
\* even place
BlankPara == [runs |-> <<Run(<<" ">>, DefaultFont)>>]

TextPara(i) ==
    IF i % 2 = 1
    THEN [runs |-> <<Run(<<Letters[i]>>, StyledFont)>>]
    ELSE [runs |-> <<Run(<<"2", ".", "1", " ">>, StyledFont),
                     Run(<<Letters[i]>>, DefaultFont)>>]

ParaAt(kind, i) == IF kind = "text" THEN TextPara(i) ELSE BlankPara

\* the tables that hold the paragraphs ps, in this order: all in one cell
\* of one table, or spread: a cell each, two cells to the row, two rows to
\* the table
SpreadCell(ps, i) == <<ps[i]>>

SpreadRow(ps, i) ==
    IF i + 1 <= Len(ps) THEN <<SpreadCell(ps, i), SpreadCell(ps, i + 1)>>
    ELSE <<SpreadCell(ps, i)>>

SpreadTable(ps, i) ==
    IF i + 2 <= Len(ps) THEN <<SpreadRow(ps, i), SpreadRow(ps, i + 2)>>
    ELSE <<SpreadRow(ps, i)>>

RECURSIVE SpreadTables(_, _)
SpreadTables(ps, i) ==
    IF i > Len(ps) THEN <<>>
    ELSE <<SpreadTable(ps, i)>> \o SpreadTables(ps, i + 4)

TableLayouts(ps) ==
    IF ps = <<>> THEN {<<>>}
    ELSE {<< << <<ps>> >> >>, SpreadTables(ps, 1)}

\* the document of n paragraphs of the given kinds, the first b of them in
\* the body and the others in tables
DocsOf(kinds, b) ==
    LET ps == [i \in 1..Len(kinds) |-> ParaAt(kinds[i], i)]
    IN  {Doc(SubSeq(ps, 1, b), t) :
            t \in TableLayouts(SubSeq(ps, b + 1, Len(ps)))}

Docs ==
    UNION {DocsOf(kinds, b) :
              <<kinds, b>> \in {x \in (UNION {[1..n -> {"text", "blank"}] :
                                                 n \in 1..MaxParas})
                                      \X (0..MaxParas) :
                                   x[2] <= Len(x[1])}}

Filenames == {<<"a", DocxExt>>, <<"b", DocxExt>>}

RECURSIVE CountCells(_)
CountCells(cells) ==
    IF cells = <<>> THEN 0 ELSE Len(Head(cells)) + CountCells(Tail(cells))

RECURSIVE CountRows(_)
CountRows(rows) ==
    IF rows = <<>> THEN 0 ELSE CountCells(Head(rows)) + CountRows(Tail(rows))

RECURSIVE CountTables(_)
CountTables(tables) ==
    IF tables = <<>> THEN 0
    ELSE CountRows(Head(tables)) + CountTables(Tail(tables))

\* the paragraphs the walk of a document visits
ParaCount(doc) == Len(doc.body) + CountTables(doc.tables)

\* a request: the file posted, and whether its client has gone away
NoUpload == [filename |-> <<>>, doc |-> Doc(<<>>, <<>>), gone |-> FALSE]
NoEntity == [original_filename |-> <<>>,
             template_filename |-> [base |-> <<>>, time |-> 0],
             items |-> <<>>]
NoFile == [doc |-> Doc(<<>>, <<>>), writer |-> 0]
NoResponse ==
    [ok |-> FALSE, status |-> 0, detail |-> "", doc |-> Doc(<<>>, <<>>),
               filename |-> <<>>]


(***************************************************************************)
(* process_document: one action per stretch between two awaits.            *)
(***************************************************************************)
\* mutant: a task enters whatever the value
can_acquire_always(value) == TRUE

\* async with semaphore: a task enters when the value is positive
can_acquire(value) == value > 0

\* the value after the release at the end of "async with semaphore"
released(value) == value + 1

\* the tasks are started, and wake up, in the order they were created
first_pending(tasks) ==
    CHOOSE i \in 1..Len(tasks) :
        /\ tasks[i] = "pending"
        /\ \A j \in 1..(i - 1) : tasks[j] # "pending"

\* await asyncio.gather(*tasks) returns: every task has ended, none raised
gather_returns(tasks) == \A i \in 1..Len(tasks) : tasks[i] = "done"

\* await asyncio.gather(*tasks) raises: a task has ended with an exception
gather_raises(tasks) == \E i \in 1..Len(tasks) : tasks[i] = "raised"

RECURSIVE SumParas(_)
SumParas(rs) ==
    IF rs = {} THEN 0
    ELSE LET r == CHOOSE q \in rs : TRUE
         IN  ParaCount(upload[r].doc) + SumParas(rs \ {r})

\* the paragraphs the uploads may hold together when request r arrives: a
\* lone document up to MaxParas, documents in flight together one fewer
UploadBudget(r) == IF r = 1 THEN MaxParas ELSE MaxParas - 1

\* a client posts a file to /upload; the requests are numbered as they come
Upload(r) ==
    /\ pc[r] = "absent"
    /\ \A q \in Requests : q < r => pc[q] # "absent"
    /\ \E f \in Filenames, d \in Docs :
          /\ SumParas(Requests \ {r}) + ParaCount(d) <= UploadBudget(r)
          /\ upload' = [upload EXCEPT ![r] =
                          [filename |-> f, doc |-> d, gone |-> FALSE]]
    /\ pc' = [pc EXCEPT ![r] = "received"]
    /\ UNCHANGED <<finished, variant, now, entity, task, semaphore,
                   calls, templates, products, opened, response, uvars>>

\* a second passes
Tick ==
    /\ now < MaxTime
    /\ now' = now + 1
    /\ UNCHANGED <<finished,
                   variant, pc, upload, entity, task, semaphore, calls,
                   templates, products, opened, response, uvars>>

\* what extract_content's outcome x leaves: the template file saved and the
\* tasks of batch_translate created, or the HTTPException 500
Extracted(r, x) ==
    IF x.ok
    THEN /\ entity' = [entity EXCEPT ![r] = x.entity]
         /\ templates' =
                (x.entity.template_filename :>
                     [doc |-> x.template, writer |-> r]) @@ templates
         /\ semaphore' = [semaphore EXCEPT ![r] = CONCURRENCY_LIMIT]
         /\ task' = [task EXCEPT ![r] =
                        [i \in 1..Len(x.entity.items) |-> "pending"]]
         /\ calls' = [calls EXCEPT ![r] =
                         [i \in 1..Len(x.entity.items) |-> 0]]
         /\ pc' = [pc EXCEPT ![r] = "translating"]
         /\ UNCHANGED response
    ELSE /\ pc' = [pc EXCEPT ![r] = "failed"]
         /\ response' = [response EXCEPT ![r] =
                            [NoResponse EXCEPT !.status = 500,
                                               !.detail = "parse_error"]]
         /\ UNCHANGED <<entity, templates, semaphore, task, calls>>

\* process_document up to its await: extract_content, then batch_translate
\* creates the semaphore and a task per item
Extract(r) ==
    /\ pc[r] = "received"
    /\ Extracted(r, extract_content(variant, upload[r], now))
    /\ UNCHANGED <<finished, variant, now, upload, products, opened, uvars>>

\* the next task enters the semaphore and starts its call of translate_text
Acquire(r) ==
    /\ \E i \in 1..Len(task[r]) : task[r][i] = "pending"
    /\ can_acquire(semaphore[r])
    /\ LET i == first_pending(task[r])
       IN  /\ task' = [task EXCEPT ![r][i] = "running"]
           /\ calls' = [calls EXCEPT ![r][i] = @ + 1]
    /\ semaphore' = [semaphore EXCEPT ![r] = @ - 1]
    /\ UNCHANGED <<finished,
                   variant, now, pc, upload, entity, templates, products,
                   opened, response, uvars>>

\* the call for item i returns: the task stores the text and leaves the
\* semaphore
Return(r, i) ==
    /\ i \in 1..Len(task[r])
    /\ task[r][i] = "running"
    /\ \E text \in TranslationResults(entity[r].items[i].original_content) :
          entity' = [entity EXCEPT ![r].items[i].translate_content = text]
    /\ task' = [task EXCEPT ![r][i] = "done"]
    /\ semaphore' = [semaphore EXCEPT ![r] = released(@)]
    /\ finished' = [finished EXCEPT ![r] = Append(@, i)]
    /\ UNCHANGED <<variant, now, pc, upload, calls, templates, products,
                   opened, response, uvars>>

\* mutant: the task whose call raised queues for another call
on_exception_retry(v, item, msg) == [item |-> item, task |-> "pending"]

\* what the task does when its call raises: translate_item of the root
\* variant catches the exception and stores the marker; _translate of the
\* server variant lets it through, and the task ends with it
on_exception(v, item, msg) ==
    IF v = "root"
    THEN [item |-> [item EXCEPT !.translate_content = failed_marker(msg)],
          task |-> "done"]
    ELSE [item |-> item, task |-> "raised"]

\* the call for item i raises
Raise(r, i) ==
    /\ i \in 1..Len(task[r])
    /\ task[r][i] = "running"
    /\ \E msg \in ErrorMessages :
          LET o == on_exception(variant, entity[r].items[i], msg)
          IN  /\ entity' = [entity EXCEPT ![r].items[i] = o.item]
              /\ task' = [task EXCEPT ![r][i] = o.task]
    /\ semaphore' = [semaphore EXCEPT ![r] = released(@)]
    /\ finished' = [finished EXCEPT ![r] = Append(@, i)]
    /\ UNCHANGED <<variant, now, pc, upload, calls, templates, products,
                   opened, response, uvars>>

\* what fill_template's outcome leaves: the response, and the product file
\* the root variant writes under the original file name
Filled(r, out) ==
    /\ response' = [response EXCEPT ![r] = out]
    /\ pc' = [pc EXCEPT ![r] = IF out.ok THEN "done" ELSE "failed"]
    /\ opened' = [opened EXCEPT ![r] =
                     IF out.ok THEN templates[entity[r].template_filename]
                     ELSE NoFile]
    /\ products' =
           IF out.ok /\ variant = "root"
           THEN (entity[r].original_filename :>
                     [doc |-> out.doc, writer |-> r]) @@ products
           ELSE products

\* gather returns and process_document goes on to fill_template
Fill(r) ==
    /\ pc[r] = "translating"
    /\ gather_returns(task[r])
    /\ Filled(r, fill_template(variant, entity[r], templates))
    /\ UNCHANGED <<finished,
                   variant, now, upload, entity, task, semaphore, calls,
                   templates, uvars>>

\* gather raises the exception of a task: batch_translate and
\* process_document end with it, the other tasks go on
Abort(r) ==
    /\ pc[r] = "translating"
    /\ gather_raises(task[r])
    /\ pc' = [pc EXCEPT ![r] = "failed"]
    /\ response' = [response EXCEPT ![r] =
                       [NoResponse EXCEPT !.status = 500,
                                          !.detail = "unhandled"]]
    /\ UNCHANGED <<finished,
                   variant, now, upload, entity, task, semaphore, calls,
                   templates, products, opened, uvars>>

UIdle ==
    /\ u_variant = "root"
    /\ u_stage = "idle"
    /\ u_input = [runs |-> <<>>]
    /\ u_para = [runs |-> <<>>]
    /\ u_num = 0
    /\ u_next = 0
    /\ u_items = <<>>
    /\ u_pieces = <<>>
    /\ u_cell = <<>>

PIdle ==
    /\ now = 0
    /\ pc = [r \in Requests |-> "absent"]
    /\ upload = [r \in Requests |-> NoUpload]
    /\ entity = [r \in Requests |-> NoEntity]
    /\ task = [r \in Requests |-> <<>>]
    /\ semaphore = [r \in Requests |-> 0]
    /\ calls = [r \in Requests |-> <<>>]
    /\ finished = [r \in Requests |-> <<>>]
    /\ templates = <<>>
    /\ products = <<>>
    /\ opened = [r \in Requests |-> NoFile]
    /\ response = [r \in Requests |-> NoResponse]

Init ==
    /\ variant \in Variants
    /\ PIdle
    /\ UIdle

\* one upload, request 1, from its arrival to its response; the clock, which
\* only names the template file, stands still: it runs where uploads meet
Next ==
    \/ Upload(1)
    \/ Extract(1)
    \/ Acquire(1)
    \/ \E i \in 1..MaxParas : Return(1, i)
    \/ \E i \in 1..MaxParas : Raise(1, i)
    \/ Fill(1)
    \/ Abort(1)

Spec == Init /\ [][Next]_vars

\* the event loop runs a task that is ready, and every call of
\* translate_text returns or raises in the end
Fairness ==
    /\ WF_vars(Acquire(1))
    /\ \A i \in 1..MaxParas : WF_vars(Return(1, i) \/ Raise(1, i))

SpecLive == Spec /\ Fairness

(***************************************************************************)
(* One upload among faults of its surroundings: a file that is no          *)
(* document, a template file removed from TEMPLATE_DIR between the stages, *)
(* a client that goes away while batch_translate is awaited.               *)
(***************************************************************************)
\* a file Document(file.file) cannot read
Malformed == [Doc(<<>>, <<>>) EXCEPT !.valid = FALSE]

\* a client posts a file that is no document
UploadMalformed(r) ==
    /\ pc[r] = "absent"
    /\ \E f \in Filenames :
          upload' = [upload EXCEPT ![r] =
                        [filename |-> f, doc |-> Malformed, gone |-> FALSE]]
    /\ pc' = [pc EXCEPT ![r] = "received"]
    /\ UNCHANGED <<finished, variant, now, entity, task, semaphore,
                   calls, templates, products, opened, response, uvars>>

\* the directory without the file of that name
remove(files, name) == [k \in DOMAIN files \ {name} |-> files[k]]

\* the run's template file is removed from TEMPLATE_DIR while
\* process_document awaits batch_translate
Delete(r) ==
    /\ pc[r] = "translating"
    /\ entity[r].template_filename \in DOMAIN templates
    /\ templates' = remove(templates, entity[r].template_filename)
    /\ UNCHANGED <<finished, variant, now, pc, upload, entity, task,
                   semaphore, calls, products, opened, response, uvars>>

\* the client goes away while process_document awaits batch_translate, and
\* the run is not told: nothing in process_document or batch_translate
\* looks at the connection
Disconnect(r) ==
    /\ pc[r] = "translating"
    /\ ~upload[r].gone
    /\ upload' = [upload EXCEPT ![r].gone = TRUE]
    /\ UNCHANGED <<finished, variant, now, pc, entity, task, semaphore,
                   calls, templates, products, opened, response, uvars>>

\* a task cancelled: one that waits for the semaphore never enters it, one
\* inside "async with semaphore" leaves it
cancelled(tasks) ==
    [i \in 1..Len(tasks) |->
        IF tasks[i] \in {"pending", "running"} THEN "cancelled"
        ELSE tasks[i]]

\* the slots the cancelled tasks give back
Running(tasks) == {i \in 1..Len(tasks) : tasks[i] = "running"}

\* the client goes away and the server cancels the task that runs
\* process_document: CancelledError is raised at "await asyncio.gather",
\* gather cancels the tasks not yet done, and process_document ends
Cancel(r) ==
    /\ pc[r] = "translating"
    /\ ~upload[r].gone
    /\ upload' = [upload EXCEPT ![r].gone = TRUE]
    /\ pc' = [pc EXCEPT ![r] = "cancelled"]
    /\ task' = [task EXCEPT ![r] = cancelled(@)]
    /\ semaphore' = [semaphore EXCEPT ![r] =
                         @ + Cardinality(Running(task[r]))]
    /\ UNCHANGED <<finished, variant, now, entity, calls, templates,
                   products, opened, response, uvars>>

NextFaults ==
    \/ Next
    \/ UploadMalformed(1)
    \/ Delete(1)
    \/ Disconnect(1)
    \/ Cancel(1)

SpecFaults == Init /\ [][NextFaults]_vars

\* uploads in flight together
NextUploads ==
    \/ Tick
    \/ \E r \in Requests : Upload(r)
    \/ \E r \in Requests : Extract(r)
    \/ \E r \in Requests : Acquire(r)
    \/ \E r \in Requests, i \in 1..MaxParas : Return(r, i)
    \/ \E r \in Requests, i \in 1..MaxParas : Raise(r, i)
    \/ \E r \in Requests : Fill(r)
    \/ \E r \in Requests : Abort(r)

SpecUploads == Init /\ [][NextUploads]_vars

(***************************************************************************)
(* One paragraph through process_paragraph and then through the            *)
(* reassembly of a body paragraph, for every text up to MaxLen.            *)
(***************************************************************************)
Alphabet == {"1", ".", " ", NL, "a"}

Texts == UNION {[1..n -> Alphabet] : n \in 0..MaxLen}

\* the paragraphs given: no run at all, the text in one styled run, or its
\* first character in a styled run and the rest in a second run
ParaInputs ==
    {[runs |-> <<>>]}
    \cup {[runs |-> <<Run(t, StyledFont)>>] : t \in Texts}
    \cup {[runs |-> <<Run(SubSeq(t, 1, 1), StyledFont),
                      Run(SubSeq(t, 2, Len(t)), DefaultFont)>>] :
             t \in {x \in Texts : Len(x) >= 2}}

\* current_num as the walk reaches the paragraph
StartNums == {1, 10}

PInit ==
    /\ variant = "root"
    /\ PIdle
    /\ u_variant \in Variants
    /\ u_stage = "input"
    /\ u_input \in ParaInputs
    /\ u_para = u_input
    /\ u_num \in StartNums
    /\ u_next = u_num
    /\ u_items = <<>>
    /\ u_pieces = <<>>
    /\ u_cell = <<>>

Processed(p) ==
    /\ u_para' = p.paragraph
    /\ u_next' = p.current_num
    /\ u_items' = p.items

\* current_num = process_paragraph(paragraph, current_num, items)
ProcessParagraph ==
    /\ u_stage = "input"
    /\ u_stage' = "template"
    /\ Processed(step_paragraph(u_variant, u_para, u_num, u_items))
    /\ UNCHANGED <<pvars, u_variant, u_input, u_num, u_pieces, u_cell>>

\* the items translated
translated_items(items) ==
    [i \in 1..Len(items) |->
        [items[i] EXCEPT
            !.translate_content = Translated(items[i].original_content)]]

\* reassembly of the paragraph as a body paragraph of the template
fill_body_paragraph(v, paragraph, items) ==
    IF v = "root" THEN process_fill_paragraph(paragraph, content_map(items))
    ELSE server_fill_paragraph(paragraph, items, 1)

FillParagraph ==
    /\ u_stage = "template"
    /\ u_stage' = "final"
    /\ u_items' = translated_items(u_items)
    /\ u_para' = fill_body_paragraph(u_variant, u_para,
                                     translated_items(u_items))
    /\ UNCHANGED <<pvars, u_variant, u_input, u_num, u_next, u_pieces,
                   u_cell>>

NextParagraph == ProcessParagraph \/ FillParagraph

SpecParagraph == PInit /\ [][NextParagraph]_vars


(***************************************************************************)
(* The pipeline's properties.                                              *)
(***************************************************************************)
RECURSIVE Concat(_)
Concat(ss) == IF ss = <<>> THEN <<>> ELSE Head(ss) \o Concat(Tail(ss))

\* the paragraphs of a document in the order of the walk: the body, then
\* table by table, row by row, cell by cell
Visited(doc) == doc.body \o Concat(Concat(Concat(doc.tables)))

NonBlank(paragraph) == strip(ParaText(paragraph)) # <<>>

NonBlankAt(ps) == {i \in 1..Len(ps) : NonBlank(ps[i])}

\* the place in ps of its n-th paragraph that is not blank
NthNonBlank(ps, n) ==
    CHOOSE i \in NonBlankAt(ps) :
        Cardinality({j \in NonBlankAt(ps) : j <= i}) = n

HasEntity(r) == entity[r] # NoEntity

Items(r) == entity[r].items

\* s holds "{{ n }}", n a decimal number, at index i
TokenAt(s, i) ==
    /\ i + 6 <= Len(s)
    /\ SubSeq(s, i, i + 2) = <<"{", "{", " ">>
    /\ SkipDigits(s, i + 3) > i + 3
    /\ SkipDigits(s, i + 3) + 2 <= Len(s)
    /\ SubSeq(s, SkipDigits(s, i + 3), SkipDigits(s, i + 3) + 2)
           = <<" ", "}", "}">>

HasToken(s) == \E i \in 1..Len(s) : TokenAt(s, i)

Markers == {failed_marker(msg) : msg \in ErrorMessages}

\* what a call on the item's content can leave in the item
PossibleResults(item) ==
    TranslationResults(item.original_content) \cup Markers

\* the numbering the template keeps in front of the token
RetainedPrefix(text) ==
    IF pattern_match(text).matched THEN pattern_match(text).group1 ELSE <<>>

\* C1: after extract_content the i-th item has placeholder number i, and
\* the items are as many as the visited paragraphs (body first, then the
\* tables) whose trimmed text is not empty: the numbers are exactly 1..N,
\* and the count goes on from the body into the tables.
C1_PlaceholderNumbers ==
    \A r \in Requests :
        HasEntity(r) =>
            /\ Len(Items(r)) = Cardinality(NonBlankAt(Visited(upload[r].doc)))
            /\ \A i \in 1..Len(Items(r)) : Items(r)[i].placeholder_number = i

\* a document with a text paragraph in the body, a blank paragraph, and a
\* text paragraph in a table that is given the last number
C1_Witness ==
    /\ HasEntity(1)
    /\ Len(Items(1)) >= 2
    /\ ParaCount(upload[1].doc) > Len(Items(1))
    /\ \E i \in 1..Len(upload[1].doc.body) : NonBlank(upload[1].doc.body[i])
    /\ NonBlank(Visited(upload[1].doc)[ParaCount(upload[1].doc)])
    /\ upload[1].doc.tables # <<>>

\* C2: root variant: when the pipeline has finished, the paragraph given
\* number n at extraction reads its retained numbering prefix followed by
\* the text the call for item n left in item n, a result of translating
\* item n's own content, whatever the order in which the calls ended.
C2_JoinByNumber ==
    \A r \in Requests :
        (variant = "root" /\ pc[r] = "done") =>
            /\ Len(Visited(response[r].doc)) = Len(Visited(upload[r].doc))
            /\ \A n \in 1..Len(Items(r)) :
                  LET k == NthNonBlank(Visited(upload[r].doc), n)
                  IN  /\ ParaText(Visited(response[r].doc)[k]) =
                             RetainedPrefix(
                                 strip(ParaText(Visited(upload[r].doc)[k])))
                             \o Items(r)[n].translate_content
                      /\ Items(r)[n].translate_content
                             \in PossibleResults(Items(r)[n])

\* the calls ended in an order that is not the items' order, each with the
\* translation of its own content
C2_Witness ==
    /\ variant = "root"
    /\ pc[1] = "done"
    /\ Len(Items(1)) >= 3
    /\ finished[1][1] # 1
    /\ \A n \in 1..Len(Items(1)) :
           Items(1)[n].translate_content
               = Translated(Items(1)[n].original_content)

NoFailure(r) ==
    \A i \in 1..Len(Items(r)) : Items(r)[i].translate_content \notin Markers

TokenFree(doc) ==
    \A k \in 1..Len(Visited(doc)) : ~HasToken(ParaText(Visited(doc)[k]))

\* C3 as stated: when every item was translated without failure, no text
\* "{{ n }}" is left in a paragraph of the final document, whatever the
\* translations returned.
C3_RoundTrip ==
    \A r \in Requests :
        (pc[r] = "done" /\ NoFailure(r)) => TokenFree(response[r].doc)

\* C3 amended: ... provided no translation returned holds a text
\* "{{ n }}" itself.
C3_RoundTripOfTokenFreeTranslations ==
    \A r \in Requests :
        (/\ pc[r] = "done"
         /\ NoFailure(r)
         /\ \A i \in 1..Len(Items(r)) :
                ~HasToken(Items(r)[i].translate_content))
            => TokenFree(response[r].doc)

\* a finished run of three items, in the body and in a table, all
\* translated
C3_Witness ==
    /\ pc[1] = "done"
    /\ Len(Items(1)) >= 3
    /\ upload[1].doc.body # <<>>
    /\ upload[1].doc.tables # <<>>
    /\ \A i \in 1..Len(Items(1)) :
           Items(1)[i].translate_content
               = Translated(Items(1)[i].original_content)
    /\ TokenFree(response[1].doc)

InFlight(r) == {i \in 1..Len(task[r]) : task[r][i] = "running"}

\* C4: at every instant at most CONCURRENCY_LIMIT calls of a
\* batch_translate are in flight, and a task that waits for the semaphore
\* has not started its call.
C4_ConcurrencyBound ==
    \A r \in Requests :
        /\ Cardinality(InFlight(r)) <= CONCURRENCY_LIMIT
        /\ \A i \in 1..Len(task[r]) :
               task[r][i] = "pending" => calls[r][i] = 0

\* the limit is reached and a further task waits
C4_Witness ==
    /\ Cardinality(InFlight(1)) = CONCURRENCY_LIMIT
    /\ \E i \in 1..Len(task[1]) : task[1][i] = "pending"

\* C5: failure isolation in both variants: a task whose call has ended,
\* by a result or by an exception, has left a text in its item (the
\* translation, or the failure marker), and the batch is not aborted.
C5_FailureIsolation ==
    \A r \in Requests :
        /\ \A i \in 1..Len(task[r]) :
               task[r][i] \notin {"pending", "running"} =>
                   /\ Items(r)[i].translate_content # None
                   /\ Items(r)[i].translate_content # <<>>
        /\ response[r].detail # "unhandled"

\* batch_translate has returned or raised
BatchEnded(r) ==
    \/ pc[r] = "done"
    \/ pc[r] = "failed" /\ response[r].detail # "parse_error"

\* C6: once batch_translate has returned or raised, every item has a
\* resolved translated content and no call is in flight.
C6_Barrier ==
    \A r \in Requests :
        BatchEnded(r) =>
            \A i \in 1..Len(Items(r)) :
                /\ Items(r)[i].translate_content # None
                /\ task[r][i] \notin {"pending", "running"}

\* C7: the template file a run's fill_template opens is the one its own
\* extract_content wrote.
C7_OwnTemplate ==
    \A r \in Requests : pc[r] = "done" => opened[r].writer = r


(***************************************************************************)
(* The reassembly of one template paragraph, in the body and in a table    *)
(* cell, for templates as they may be found on disk: put together from     *)
(* placeholders of items, a placeholder of no item, and other text.        *)
(***************************************************************************)
\* a number no item has
UnknownNum == 9

\* "{{1}}": braces and a number, not the shape extraction writes
LoosePiece == <<"{", "{", "1", "}", "}">>

PlainPieces == {<<"a">>, <<" ">>}

Pieces ==
    {placeholder(1), placeholder(2), placeholder(UnknownNum), LoosePiece}
    \cup PlainPieces

PieceSeqs == UNION {[1..n -> Pieces] : n \in 1..MaxPieces}

\* what the items may hold as translated content: a text of their own, the
\* empty text, nothing, or a text that reads "{{ 2 }}"
FillContents(n) ==
    {<<IF n = 1 THEN "X" ELSE "Y">>, <<>>, None, placeholder(2)}

FillItems ==
    {<<[DocumentItem(1, <<"a">>) EXCEPT !.translate_content = c1],
       [DocumentItem(2, <<"b">>) EXCEPT !.translate_content = c2]>> :
        c1 \in FillContents(1), c2 \in FillContents(2)}

\* the second paragraph of the cell
LastPara == [runs |-> <<Run(<<"z">>, DefaultFont)>>]

FInit ==
    /\ variant = "root"
    /\ PIdle
    /\ u_variant \in Variants
    /\ u_stage = "template"
    /\ u_pieces \in PieceSeqs
    /\ u_para = [runs |-> <<Run(Concat(u_pieces), StyledFont)>>]
    /\ u_input = u_para
    /\ u_cell = <<u_para, LastPara>>
    /\ u_items \in FillItems
    /\ u_num = 0
    /\ u_next = 0

\* reassembly of a table cell
fill_cell(v, cell, items) ==
    IF v = "root" THEN fill_paragraphs(cell, content_map(items))
    ELSE server_fill_cell(cell, items, 1)

FillTemplate ==
    /\ u_stage = "template"
    /\ u_stage' = "final"
    /\ u_para' = fill_body_paragraph(u_variant, u_para, u_items)
    /\ u_cell' = fill_cell(u_variant, u_cell, u_items)
    /\ UNCHANGED <<pvars, u_variant, u_input, u_num, u_next, u_items,
                   u_pieces>>

NextFill == FillTemplate

SpecFill == FInit /\ [][NextFill]_vars

(***************************************************************************)
(* Properties of the reassembly of one paragraph.                          *)
(***************************************************************************)
KnownNums == {u_items[i].placeholder_number : i \in 1..Len(u_items)}

ItemOf(n) == u_items[CHOOSE i \in 1..Len(u_items) :
                         u_items[i].placeholder_number = n]

\* what a piece is to become: the placeholder of an item its translated
\* content (nothing when there is none), any other piece itself
Image(piece) ==
    IF \E n \in KnownNums : piece = placeholder(n)
    THEN LET n == CHOOSE k \in KnownNums : piece = placeholder(k)
         IN  IF ItemOf(n).translate_content = None THEN <<>>
             ELSE ItemOf(n).translate_content
    ELSE piece

Images(pieces) == Concat([i \in 1..Len(pieces) |-> Image(pieces[i])])

\* the pieces without the blank pieces at both ends
RECURSIVE TrimPieces(_)
TrimPieces(pieces) ==
    IF pieces # <<>> /\ Head(pieces) = <<" ">> THEN TrimPieces(Tail(pieces))
    ELSE IF pieces # <<>> /\ pieces[Len(pieces)] = <<" ">>
         THEN TrimPieces(SubSeq(pieces, 1, Len(pieces) - 1))
         ELSE pieces

\* the template is made of placeholders and plain text only, one of the
\* placeholders is of no item, and no translated content reads as a token
UnknownTokenCase ==
    /\ \A i \in 1..Len(u_pieces) : u_pieces[i] # LoosePiece
    /\ \E i \in 1..Len(u_pieces) : u_pieces[i] = placeholder(UnknownNum)
    /\ \A i \in 1..Len(u_items) :
           u_items[i].translate_content = None
           \/ ~HasToken(u_items[i].translate_content)

\* how many times t is found in s, from index i on
RECURSIVE Occurrences(_, _, _)
Occurrences(s, t, i) ==
    IF i + Len(t) - 1 > Len(s) THEN 0
    ELSE IF IsAt(s, i, t) THEN 1 + Occurrences(s, t, i + Len(t))
         ELSE Occurrences(s, t, i + 1)

UnknownPieces ==
    {i \in 1..Len(u_pieces) : u_pieces[i] = placeholder(UnknownNum)}

\* C8: a token "{{ m }}" of no item stays in the final text as it is, as
\* many times as the template holds it, in a body paragraph and in a table
\* cell, in both variants; and where the template is made of placeholders
\* and plain text and no translation reads as a token, the token stays in
\* its place and the tokens of items around it are replaced by the items'
\* translated content.
C8_UnknownPlaceholderKept ==
    u_stage = "final" =>
        /\ Occurrences(ParaText(u_para), placeholder(UnknownNum), 1)
               = Cardinality(UnknownPieces)
        /\ Occurrences(JoinParagraphs(u_cell), placeholder(UnknownNum), 1)
               = Cardinality(UnknownPieces)
        /\ UnknownTokenCase =>
               IF u_variant = "root"
               THEN /\ ParaText(u_para) = Images(TrimPieces(u_pieces))
                    /\ ParaText(u_cell[1]) = Images(TrimPieces(u_pieces))
               ELSE /\ ParaText(u_para) = Images(u_pieces)
                    /\ JoinParagraphs(u_cell)
                           = Images(u_pieces) \o <<NL, "z">>

\* "{{ 1 }}{{ 9 }}" has become "X{{ 9 }}"
C8_Witness ==
    /\ u_stage = "final"
    /\ UnknownTokenCase
    /\ u_pieces = <<placeholder(1), placeholder(UnknownNum)>>
    /\ ParaText(u_para) = <<"X">> \o placeholder(UnknownNum)

(***************************************************************************)
(* Properties of process_paragraph.                                        *)
(***************************************************************************)
IsBlank(text) == \A i \in 1..Len(text) : IsSpace(text[i])

\* the text as given, trimmed
GivenText == SubSeq(ParaText(u_input),
                    SkipSpaces(ParaText(u_input), 1),
                    BackSpaces(ParaText(u_input), Len(ParaText(u_input))))

\* the end of the numbering of the given text: its dot-separated integers
\* and the whitespace after them
PrefixEnd ==
    SkipSpaces(GivenText,
               SkipGroups(GivenText, SkipDigits(GivenText, 1))) - 1

HasNumbering ==
    /\ SkipDigits(GivenText, 1) > 1
    /\ PrefixEnd >= SkipGroups(GivenText, SkipDigits(GivenText, 1))

\* C9: a paragraph whose trimmed text is a numbering prefix P (dot-separated
\* integers, then whitespace) followed by a remainder R is rewritten to
\* P + "{{ n }}" and R is recorded as the item's content; a paragraph with
\* no such prefix is rewritten to "{{ n }}" and its whole trimmed text is
\* recorded.
C9_NumberingPrefixKept ==
    (u_stage = "template" /\ ~IsBlank(ParaText(u_input))) =>
        IF HasNumbering
        THEN /\ ParaText(u_para) =
                    SubSeq(GivenText, 1, PrefixEnd) \o placeholder(u_num)
             /\ u_items = <<DocumentItem(u_num,
                               SubSeq(GivenText, PrefixEnd + 1,
                                      Len(GivenText)))>>
        ELSE /\ ParaText(u_para) = placeholder(u_num)
             /\ u_items = <<DocumentItem(u_num, GivenText)>>

\* process_paragraph and the reassembly of a body paragraph, each on its
\* own, leave a paragraph of no text or of whitespace as it is, with no item
\* and no number, in both variants.
BlankParagraphSkipped ==
    IsBlank(ParaText(u_input)) =>
        /\ u_para = u_input
        /\ u_items = <<>>
        /\ u_next = u_num

(***************************************************************************)
(* Blank paragraphs through the whole pipeline.                            *)
(***************************************************************************)
\* the blank paragraphs of the document src are found in dst, each in its
\* place and with its runs
BlankKept(src, dst) ==
    /\ \A i \in 1..Len(src.body) :
           IsBlank(ParaText(src.body[i])) =>
               i \in DOMAIN dst.body /\ dst.body[i] = src.body[i]
    /\ \A t \in 1..Len(src.tables) :
         \A w \in 1..Len(src.tables[t]) :
           \A c \in 1..Len(src.tables[t][w]) :
             \A i \in 1..Len(src.tables[t][w][c]) :
               IsBlank(ParaText(src.tables[t][w][c][i])) =>
                   /\ i \in DOMAIN dst.tables[t][w][c]
                   /\ dst.tables[t][w][c][i] = src.tables[t][w][c][i]

\* C10: a paragraph whose text is empty or only whitespace gets no item and
\* no number, and is found with its text and its runs in the template after
\* extraction and in the final document after reassembly.
C10_BlankParagraphsUntouched ==
    \A r \in Requests :
        pc[r] = "done" =>
            /\ Len(Items(r)) = Cardinality(NonBlankAt(Visited(upload[r].doc)))
            /\ BlankKept(upload[r].doc, opened[r].doc)
            /\ BlankKept(upload[r].doc, response[r].doc)

(***************************************************************************)
(* Style and numbering of one paragraph.                                   *)
(***************************************************************************)
\* family, size, bold, italic and color of a font
StyleOf(font) ==
    [name |-> font.name, size |-> font.size, bold |-> font.bold,
     italic |-> font.italic, color |-> font.color]

\* the paragraph has been rewritten by process_paragraph, or by
\* process_fill_paragraph after it
Rewritten ==
    /\ ~IsBlank(ParaText(u_input))
    /\ u_input.runs # <<>>
    /\ \/ u_stage = "template"
       \/ u_stage = "final" /\ u_variant = "root"

\* C11: a paragraph whose first run has a style, once rewritten by
\* process_paragraph and again by process_fill_paragraph, has one run, and
\* that run has the family, size, bold, italic and color of the first run
\* it had, however many runs it had: a size of 12 points stays 12 points.
C11_StyleRoundTrip ==
    Rewritten =>
        /\ Len(u_para.runs) = 1
        /\ StyleOf(u_para.runs[1].font) = StyleOf(u_input.runs[1].font)

\* where the number at the head of the given text starts and ends, and
\* where the whitespace after it ends
NumberStart == SkipSpaces(ParaText(u_input), 1)

NumberEnd ==
    SkipGroups(ParaText(u_input),
               SkipDigits(ParaText(u_input), NumberStart)) - 1

\* the given text is a numbering prefix and nothing else: dot-separated
\* integers, then whitespace up to the end
PrefixOnly ==
    /\ SkipDigits(ParaText(u_input), NumberStart) > NumberStart
    /\ NumberEnd < Len(ParaText(u_input))
    /\ SkipSpaces(ParaText(u_input), NumberEnd + 1)
           = Len(ParaText(u_input)) + 1

\* C13: a paragraph whose text is only a numbering prefix gets a number and
\* an item: the template text is the prefix (its number and whitespace of
\* it) ahead of the token, and the item's content is the empty remainder.
C13_PrefixOnlyParagraph ==
    (u_stage = "template" /\ PrefixOnly) =>
        /\ ParaText(u_para) \in
               {SubSeq(ParaText(u_input), NumberStart, e)
                    \o placeholder(u_num) :
                        e \in NumberEnd..Len(ParaText(u_input))}
        /\ u_items = <<DocumentItem(u_num, <<>>)>>
        /\ u_next = u_num + 1

(***************************************************************************)
(* Decoding of the tokens by the reassembly.                               *)
(***************************************************************************)
LoosePieces == {i \in 1..Len(u_pieces) : u_pieces[i] = LoosePiece}

\* the final text of the paragraph is the template with every placeholder
\* of an item replaced by the item's translated content (nothing when
\* there is none) and everything else in its place; the root variant works
\* on the trimmed text
SubstitutedOnce ==
    IF u_variant = "root"
    THEN /\ ParaText(u_para) = Images(TrimPieces(u_pieces))
         /\ ParaText(u_cell[1]) = Images(TrimPieces(u_pieces))
    ELSE /\ ParaText(u_para) = Images(u_pieces)
         /\ JoinParagraphs(u_cell) = Images(u_pieces) \o <<NL, "z">>

\* C12: text of another shape than "{{ N }}", as "{{1}}", is never read
\* as a token: the final text holds it as often as the template does, in
\* a body paragraph and in a table cell, in both variants.
C12_StrictDecoding ==
    u_stage = "final" =>
        /\ Occurrences(ParaText(u_para), LoosePiece, 1)
               = Cardinality(LoosePieces)
        /\ Occurrences(JoinParagraphs(u_cell), LoosePiece, 1)
               = Cardinality(LoosePieces)

\* the item whose placeholder the piece is has no translated content
AbsentAt(i) ==
    \E n \in KnownNums :
        /\ u_pieces[i] = placeholder(n)
        /\ ItemOf(n).translate_content = None

\* the template is made of placeholders and plain text, a placeholder is
\* of an item that was never given a translated content, and no translated
\* content reads as a token
AbsentTranslationCase ==
    /\ LoosePieces = {}
    /\ \E i \in 1..Len(u_pieces) : AbsentAt(i)
    /\ \A i \in 1..Len(u_items) :
           u_items[i].translate_content = None
           \/ ~HasToken(u_items[i].translate_content)

\* C18: the token of an item whose translated content is absent is
\* replaced by the empty string, the rest of the paragraph is reassembled
\* as ever, in both variants.
C18_AbsentTranslationEmpty ==
    (u_stage = "final" /\ AbsentTranslationCase) => SubstitutedOnce

\* "a{{ 1 }}{{ 2 }}" with item 1 absent and item 2 "Y" has become "aY"
C18_Witness ==
    /\ u_stage = "final"
    /\ AbsentTranslationCase
    /\ u_pieces = <<<<"a">>, placeholder(1), placeholder(2)>>
    /\ ItemOf(2).translate_content = <<"Y">>
    /\ ParaText(u_para) = <<"a", "Y">>
    /\ JoinParagraphs(u_cell) = <<"a", "Y", NL, "z">>

\* the translated content of an item whose placeholder is in the template
\* reads as the token of another item
InsertedTokenCase ==
    /\ LoosePieces = {}
    /\ \E n \in KnownNums :
           /\ \E i \in 1..Len(u_pieces) : u_pieces[i] = placeholder(n)
           /\ ItemOf(n).translate_content # None
           /\ HasToken(ItemOf(n).translate_content)

\* C20: the text put in as the translated content of an item is not
\* scanned again: "{{ j }}" in it is found as it is in the final text and
\* is not replaced by item j's content, in both variants.
C20_SinglePass ==
    (u_stage = "final" /\ InsertedTokenCase) => SubstitutedOnce

(***************************************************************************)
(* The calls of one batch_translate.                                       *)
(***************************************************************************)
Ended(r) == {i \in 1..Len(task[r]) : task[r][i] \in {"done", "raised"}}

\* C14: in one run of batch_translate translate_text is called once for
\* each item and never again, whether the call returned or raised: a task
\* that waits has made no call, a task that runs or has ended has made
\* one, and every task ends once, having written no item but its own.
C14_NoRetry ==
    \A r \in Requests :
        /\ \A i \in 1..Len(task[r]) :
               calls[r][i] = IF task[r][i] = "pending" THEN 0 ELSE 1
        /\ Len(finished[r]) = Cardinality(Ended(r))
        /\ \A k \in 1..Len(finished[r]) : finished[r][k] \in Ended(r)
        /\ \A i \in 1..Len(task[r]) :
               i \notin Ended(r) => Items(r)[i].translate_content = None

\* a batch of three items has ended, the first call having raised and the
\* others returned, every item called once
C14_Witness ==
    /\ Len(task[1]) = 3
    /\ Ended(1) = {1, 2, 3}
    /\ finished[1][1] = 1
    /\ \/ task[1][1] = "raised"
       \/ Items(1)[1].translate_content \in Markers
    /\ \A i \in {2, 3} :
           Items(1)[i].translate_content
               = Translated(Items(1)[i].original_content)
    /\ \A i \in 1..3 : calls[1][i] = 1

(***************************************************************************)
(* Progress of batch_translate.                                            *)
(***************************************************************************)
\* every task has ended, every item has a translated content, and all the
\* slots of the semaphore are free
StageComplete(r) ==
    /\ \A i \in 1..Len(task[r]) : task[r][i] \notin {"pending", "running"}
    /\ \A i \in 1..Len(Items(r)) : Items(r)[i].translate_content # None
    /\ semaphore[r] = CONCURRENCY_LIMIT

\* every task has ended and all the slots of the semaphore are free
StageDrained(r) ==
    /\ \A i \in 1..Len(task[r]) : task[r][i] \notin {"pending", "running"}
    /\ semaphore[r] = CONCURRENCY_LIMIT

\* C15: when every call returns or raises in the end, a batch_translate
\* that has started comes to the point where every item is resolved and
\* all the slots are free, also with more items than slots.
C15_Progress == (pc[1] = "translating") ~> StageComplete(1)

\* what does hold: every task ends and every slot is released, whether the
\* calls returned or raised
TasksDrain == (pc[1] = "translating") ~> StageDrained(1)

(***************************************************************************)
(* Faults: a missing template, a file that is no document, a client that   *)
(* goes away.                                                              *)
(***************************************************************************)
\* fill_template of the run was started and found no template file
FilledWithoutTemplate(r) ==
    /\ pc[r] = "failed"
    /\ HasEntity(r)
    /\ gather_returns(task[r])
    /\ entity[r].template_filename \notin DOMAIN templates

\* C16: when the template file is missing at reassembly, fill_template
\* fails with the template-not-found error, the 404, and returns no
\* document.
C16_TemplateNotFound ==
    \A r \in Requests :
        FilledWithoutTemplate(r) =>
            /\ response[r].status = 404
            /\ ~response[r].ok
            /\ response[r].doc = Doc(<<>>, <<>>)

\* the template files the run of request r wrote
WrittenBy(r) == {k \in DOMAIN templates : templates[k].writer = r}

C19_Cancellation ==
    \A r \in Requests :
        upload[r].gone =>
            /\ \A i \in 1..Len(task[r]) :
                   task[r][i] \notin {"pending", "running"}
            /\ semaphore[r] = CONCURRENCY_LIMIT
            /\ pc[r] # "done"
            /\ ~response[r].ok
            /\ \A k \in DOMAIN products : products[k].writer # r

=============================================================================
